---- MODULE Spec2Model ----
(***************************************************************************)
(* A model of UnityPack's bundle decoder (src/main.py): AssetBundle,       *)
(* Asset, TypeMetadata, TypeTree, ObjectInfo and BinaryReader.             *)
(*                                                                         *)
(* A file is a sequence of bytes.  Stream positions are 0-based as in      *)
(* Python; TLA+ sequences are 1-based, so byte p of a stream is data[p+1]. *)
(* Integers are 32 bits wide in TLC: unsigned 32-bit reads are exact for   *)
(* values below 2^31, and every byte of the fixtures is below 128, so that *)
(* any four of them in any order stay in range.  A 64-bit integer is the   *)
(* pair of its two 32-bit words <<high (signed), low (unsigned)>>.         *)
(***************************************************************************)
EXTENDS Integers, Sequences, FiniteSets, TLC

VARIABLES
    file,          \* the bytes of the file at the path given to from_path
    defaults,      \* type ids of the caller's default type table
    handle,        \* AssetBundle.file: "none", "open" or "closed"
    filePos,       \* position of the container's stream
    pc,            \* position of the decode
    err,           \* the exception that ended the decode, or NoError
    bundle,        \* fields of the AssetBundle
    assets,        \* AssetBundle.assets, in order
    cur,           \* the Asset being loaded
    i,             \* loop counter of the running for-loop
    last           \* the last bytes() call: asset, object (in table order), value

vars == <<file, defaults, handle, filePos, pc, err, bundle, assets, cur, i, last>>

-----------------------------------------------------------------------------
(* Program constants *)

TextAsset == 49
AssetBundleClass == 142
UnityClass == {TextAsset, AssetBundleClass}

\* "UnityWeb" and "UnityRaw" as code points
SIGNATURE_WEB == <<85, 110, 105, 116, 121, 87, 101, 98>>
SIGNATURE_RAW == <<85, 110, 105, 116, 121, 82, 97, 119>>

\* The exceptions the decoder raises
NoError          == "none"
E_Truncated      == "struct.error"
E_Unterminated   == "ValueError: Unterminated string"
E_Duplicate      == "ValueError: Duplicate asset object"
E_NotUnityClass  == "ValueError: not a valid UnityClass"
E_UnknownType    == "KeyError: default type_trees"
E_Signature      == "AssertionError: signature"
E_Format         == "AssertionError: format"
E_Platform       == "AssertionError: target_platform"
E_Trailing       == "AssertionError: unk_string"
E_AssetRef       == "NameError: AssetRef"
E_Seek           == "OSError: Invalid argument"

-----------------------------------------------------------------------------
(* Results of reads.  A read or a run of reads yields the exception it      *)
(* raised (NoError when none), the position it left the stream at, and its  *)
(* value.  Bind is sequencing: the first exception ends the run.            *)

Ok(p, v) == [err |-> NoError, pos |-> p, v |-> v]

Fail(e, p) == [err |-> e, pos |-> p, v |-> <<>>]

Bind(r, F(_)) == IF r.err # NoError THEN Fail(r.err, r.pos) ELSE F(r)

\* an assert or a raise-unless at position p
Check(cond, e, p) == IF cond THEN Ok(p, TRUE) ELSE Fail(e, p)

-----------------------------------------------------------------------------
(* BinaryReader over a byte sequence *)

\* How many bytes buf.read(n) returns at position pos: never more than remain
Avail(data, pos, n) ==
    IF pos >= Len(data) THEN 0
    ELSE IF n >= Len(data) - pos THEN Len(data) - pos ELSE n

\* buf.read(n): the bytes returned (fewer than n at the end of the stream)
Read(data, pos, n) == SubSeq(data, pos + 1, pos + Avail(data, pos, n))

\* the position after buf.read(n)
AfterRead(data, pos, n) == pos + Avail(data, pos, n)

\* BinaryReader.read: returns what the stream has, and never raises
ReadBytes(data, pos, n) == Ok(AfterRead(data, pos, n), Read(data, pos, n))

Reverse(s) == [k \in 1..Len(s) |-> s[Len(s) + 1 - k]]

\* bytes in most-significant-first order for the reader's byte order
Ordered(endian, bs) == IF endian = "<" THEN Reverse(bs) ELSE bs

Unsigned16(m) == m[1] * 256 + m[2]
Signed16(m) == IF m[1] >= 128 THEN (m[1] - 256) * 256 + m[2] ELSE Unsigned16(m)
Unsigned32(m) == m[1] * 16777216 + m[2] * 65536 + m[3] * 256 + m[4]
Signed32(m) ==
    IF m[1] >= 128
    THEN (m[1] - 256) * 16777216 + m[2] * 65536 + m[3] * 256 + m[4]
    ELSE Unsigned32(m)
Signed8(m) == IF m[1] >= 128 THEN m[1] - 256 ELSE m[1]
Signed64(m) == <<Signed32(SubSeq(m, 1, 4)), Unsigned32(SubSeq(m, 5, 8))>>

\* struct sizes of the format characters used by BinaryReader
Width(fmt) ==
    CASE fmt = "b" -> 1
      [] fmt = "h" -> 2
      [] fmt = "i" -> 4
      [] fmt = "I" -> 4
      [] fmt = "q" -> 8

\* the value of bytes m, most significant first, under a format character
Value(fmt, m) ==
    CASE fmt = "b" -> Signed8(m)
      [] fmt = "h" -> Signed16(m)
      [] fmt = "i" -> Signed32(m)
      [] fmt = "I" -> Unsigned32(m)
      [] fmt = "q" -> Signed64(m)

\* struct.unpack(endian + fmt, bs)[0]: struct.error unless bs has the width
Unpack(endian, fmt, bs, pos) ==
    IF Len(bs) # Width(fmt) THEN Fail(E_Truncated, pos)
    ELSE Ok(pos, Value(fmt, Ordered(endian, bs)))

\* read_byte, read_int16, read_int, read_uint, read_int64
ReadNum(data, pos, endian, fmt) ==
    Unpack(endian, fmt, Read(data, pos, Width(fmt)), AfterRead(data, pos, Width(fmt)))

\* a run of consecutive numeric reads
RECURSIVE ReadNums(_, _, _, _)
ReadNums(data, pos, endian, fmts) ==
    IF fmts = <<>> THEN Ok(pos, <<>>)
    ELSE Bind(ReadNum(data, pos, endian, Head(fmts)), LAMBDA r :
         Bind(ReadNums(data, r.pos, endian, Tail(fmts)), LAMBDA rest :
         Ok(rest.pos, <<r.v>> \o rest.v)))

\* positions at or after pos holding a nul byte
NulsFrom(data, pos) == {p \in pos..(Len(data) - 1) : data[p + 1] = 0}

SetMin(S) == CHOOSE x \in S : \A y \in S : x <= y

\* bytes.decode("utf-8") of bytes below 128: their code points
Decode(bs) == [k \in 1..Len(bs) |-> bs[k]]

\* the string ending at the nul at position z
StringTo(data, pos, z) == Ok(z + 1, Decode(SubSeq(data, pos + 1, z)))

\* read_string: bytes up to the first nul, decoded; ValueError when the
\* stream ends before a nul
read_string(data, pos) ==
    IF NulsFrom(data, pos) = {}
    THEN Fail(E_Unterminated, IF pos >= Len(data) THEN pos ELSE Len(data))
    ELSE StringTo(data, pos, SetMin(NulsFrom(data, pos)))

\* (old + 3) & -4
RoundUp4(old) == ((old + 3) \div 4) * 4

\* BinaryReader.align: seeks forward to the next multiple of 4, never backward
align(old) == IF RoundUp4(old) > old THEN RoundUp4(old) ELSE old

-----------------------------------------------------------------------------
(* Python dicts as sequences of key/value records in insertion order *)

DictHas(d, k) == \E j \in 1..Len(d) : d[j].key = k

Keys(d) == {d[j].key : j \in 1..Len(d)}

\* d[k] = v: replaces the value of an existing key, else appends
DictSet(d, k, v) ==
    IF DictHas(d, k)
    THEN [j \in 1..Len(d) |-> IF d[j].key = k THEN [key |-> k, val |-> v] ELSE d[j]]
    ELSE Append(d, [key |-> k, val |-> v])

-----------------------------------------------------------------------------
(* AssetBundle.read_header up to the asset loop *)

NoBundle == [signature |-> <<>>, format_version |-> 0, header_size |-> 0,
             num_assets |-> 0]

\* the fields read after bundle_count: gated on format_version and header_size
HeaderTail(format_version, header_size) ==
    (IF format_version >= 2 THEN <<"I">> ELSE <<>>)
    \o (IF format_version >= 3 THEN <<"I">> ELSE <<>>)
    \o (IF header_size >= 60 THEN <<"I", "I">> ELSE <<>>)

\* lines 229-253: every header field is read, then the signature is checked
ParseHeader(data) ==
    Bind(read_string(data, 0), LAMBDA sig :
    Bind(ReadNum(data, sig.pos, ">", "i"), LAMBDA fv :
    Bind(read_string(data, fv.pos), LAMBDA uv :
    Bind(read_string(data, uv.pos), LAMBDA gv :
    Bind(ReadNums(data, gv.pos, ">", <<"I", "i", "i", "i">>), LAMBDA nums :
    Bind(ReadNums(data, nums.pos, ">", HeaderTail(fv.v, nums.v[2])), LAMBDA tail :
    Bind(Check(sig.v = SIGNATURE_RAW, E_Signature, tail.pos), LAMBDA raw :
    Bind(Check(nums.v[2] >= 0, E_Seek, tail.pos), LAMBDA seek :
    Bind(ReadNum(data, nums.v[2], ">", "i"), LAMBDA na :
    Ok(na.pos, [signature |-> sig.v, format_version |-> fv.v,
                header_size |-> nums.v[2], num_assets |-> na.v]))))))))))

-----------------------------------------------------------------------------
(* Asset *)

NoAsset == [name |-> <<>>, header_size |-> 0, size |-> 0, offset |-> 0,
            data |-> <<>>, pos |-> 0, endian |-> ">",
            file_size |-> 0, format |-> 0, data_offset |-> 0, endianness |-> 0,
            has_type_trees |-> FALSE, num_types |-> 0,
            hashes |-> <<>>, type_trees |-> <<>>,
            num_objects |-> 0, objects |-> <<>>, types |-> {},
            num_adds |-> 0, adds |-> <<>>, num_refs |-> 0]

\* BaseOffset with the position taken once the triple has been read
OffsetAfterTriple(before, after) == after

\* Asset.load, line 141: offset is the position before the triple is read
BaseOffset(before, after) == before

\* Asset.load, lines 141-144
LoadTriple(data, pos) ==
    Bind(read_string(data, pos), LAMBDA name :
    Bind(ReadNums(data, name.pos, ">", <<"I", "I">>), LAMBDA nums :
    Ok(nums.pos, [NoAsset EXCEPT !.name = name.v, !.offset = BaseOffset(pos, nums.pos),
                                 !.header_size = nums.v[1], !.size = nums.v[2]])))

\* Asset.load, line 146: the absolute position the slice is read from
SliceStart(a) == a.offset + a.header_size

\* Asset.load, line 147: BytesIO(buf.read(self.size))
Slice(data, a) == ReadBytes(data, SliceStart(a), a.size)

\* EndianAfterHeader without the switch of line 159
EndianKept(endianness) == ">"

\* Asset.prepare, lines 158-159: the byte order of every read after the header
EndianAfterHeader(endianness) == IF endianness = 0 THEN "<" ELSE ">"

\* Asset.prepare, lines 151-161
PrepareHeader(a) ==
    Bind(ReadNums(a.data, 0, ">", <<"I", "I", "I", "I">>), LAMBDA h :
    Bind(Check(h.v[2] >= 9, E_Format, h.pos), LAMBDA supported :
    Ok(h.pos, [a EXCEPT !.pos = h.pos, !.file_size = h.v[1], !.format = h.v[2],
                        !.data_offset = h.v[3], !.endianness = h.v[4],
                        !.endian = EndianAfterHeader(h.v[4])])))

-----------------------------------------------------------------------------
(* TypeTree.load_blob and TypeMetadata.load *)

\* TypeTree.load_blob: nodes, buffer_bytes, then two reads of bytes
load_blob(data, pos, endian) ==
    Bind(ReadNums(data, pos, endian, <<"I", "I">>), LAMBDA h :
    Bind(ReadBytes(data, h.pos, 24 * h.v[1]), LAMBDA node_data :
    Bind(ReadBytes(data, node_data.pos, h.v[2]), LAMBDA local_buffer :
    Ok(local_buffer.pos, [nodes |-> h.v[1], buffer_bytes |-> h.v[2],
                          node_data |-> node_data.v,
                          local_buffer |-> local_buffer.v]))))

\* the hash length read for a class id: 0x20 for script types, else 0x10
HashLen(class_id) == IF class_id < 0 THEN 32 ELSE 16

\* the body of the for-loop of TypeMetadata.load, n times
RECURSIVE LoadTypes(_, _, _, _, _, _, _)
LoadTypes(data, pos, endian, has_trees, n, hashes, trees) ==
    IF n <= 0 THEN Ok(pos, [hashes |-> hashes, trees |-> trees])
    ELSE Bind(ReadNum(data, pos, endian, "i"), LAMBDA c :
         Bind(ReadBytes(data, c.pos, HashLen(c.v)), LAMBDA hash :
         Bind(IF has_trees THEN load_blob(data, hash.pos, endian)
                           ELSE Ok(hash.pos, <<>>), LAMBDA blob :
         LoadTypes(data, blob.pos, endian, has_trees, n - 1,
                   DictSet(hashes, c.v, hash.v),
                   IF has_trees THEN DictSet(trees, c.v, blob.v) ELSE trees))))

\* TypeMetadata.load on the asset's reader
TypeMetadataLoad(a) ==
    Bind(read_string(a.data, a.pos), LAMBDA gv :
    Bind(ReadNum(a.data, gv.pos, a.endian, "I"), LAMBDA plat :
    Bind(Check(plat.v = 5, E_Platform, plat.pos), LAMBDA windows :
    Bind(ReadNums(a.data, plat.pos, a.endian, <<"b", "i">>), LAMBDA nums :
    Bind(LoadTypes(a.data, nums.pos, a.endian, nums.v[1] # 0, nums.v[2], <<>>, <<>>),
         LAMBDA tys :
    Ok(tys.pos, [a EXCEPT !.pos = tys.pos, !.has_type_trees = nums.v[1] # 0,
                          !.num_types = nums.v[2],
                          !.hashes = tys.v.hashes, !.type_trees = tys.v.trees]))))))

-----------------------------------------------------------------------------
(* The object table: Asset.prepare lines 166-195 and ObjectInfo.load *)

\* WideIds with the boundary one format later
WideIdsAbove14(format) == format > 14

\* lines 168 and 190: whether the id is aligned and 8 bytes wide
WideIds(format) == format >= 14

\* lines 168-172 and 190-194: the id of an object entry or of an added pair
ReadId(data, pos, endian, format) ==
    IF WideIds(format)
    THEN ReadNum(data, align(pos), endian, "q")
    ELSE ReadNum(data, pos, endian, "i")

\* ObjectInfo.load, lines 121-127: the fields after class_id
Trailer(format) ==
    IF format <= 10 THEN <<"h">>
    ELSE IF format >= 15 THEN <<"h", "b">> ELSE <<"h">>

\* ObjectInfo.load: UnityClass(...) raises before class_id is read
ObjectInfoLoad(data, pos, endian, format) ==
    Bind(ReadNums(data, pos, endian, <<"I", "I", "I">>), LAMBDA head :
    Bind(Check(head.v[3] \in UnityClass, E_NotUnityClass, head.pos), LAMBDA known :
    Bind(ReadNums(data, head.pos, endian, <<"h">> \o Trailer(format)), LAMBDA rest :
    Ok(rest.pos, [data_offset |-> head.v[1], size |-> head.v[2],
                  type |-> head.v[3], class_id |-> rest.v[1]]))))

\* TypeMetadata.default().type_trees, which line 180 indexes: the source gives
\* no definition of default(); it is the caller's default type table, and
\* indexing it by a type it lacks raises KeyError
DefaultHas(dflt, type) == type \in dflt

\* lines 177-180: the type is taken from the file's type trees, else it is
\* already in self.types, else it is taken from the default table
Resolve(a, type, dflt, pos) ==
    IF type \in Keys(a.type_trees) THEN Ok(pos, a.types \cup {type})
    ELSE IF type \in a.types THEN Ok(pos, a.types)
    ELSE IF DefaultHas(dflt, type) THEN Ok(pos, a.types \cup {type})
    ELSE Fail(E_UnknownType, pos)

\* StoreObject without the check of lines 182-183
StoreUnchecked(objects, path_id, obj, pos) == Ok(pos, DictSet(objects, path_id, obj))

\* lines 182-185: the duplicate check, then the store
StoreObject(objects, path_id, obj, pos) ==
    IF DictHas(objects, path_id) THEN Fail(E_Duplicate, pos)
    ELSE Ok(pos, DictSet(objects, path_id, obj))

\* one iteration of the loop of lines 167-185
LoadObject(a, dflt) ==
    Bind(ReadId(a.data, a.pos, a.endian, a.format), LAMBDA id :
    Bind(ObjectInfoLoad(a.data, id.pos, a.endian, a.format), LAMBDA o :
    Bind(Resolve(a, o.v.type, dflt, o.pos), LAMBDA types :
    Bind(StoreObject(a.objects, id.v, o.v, o.pos), LAMBDA objects :
    Ok(o.pos, [a EXCEPT !.pos = o.pos, !.types = types.v, !.objects = objects.v])))))

\* one iteration of the loop of lines 189-195
LoadAdd(a) ==
    Bind(ReadId(a.data, a.pos, a.endian, a.format), LAMBDA id :
    Bind(ReadNum(a.data, id.pos, a.endian, "i"), LAMBDA val :
    Ok(val.pos, [a EXCEPT !.pos = val.pos, !.adds = Append(@, <<id.v, val.v>>)])))

\* lines 166, 188 and 197: a count, stored in a field of the asset
NumObjects(a) ==
    Bind(ReadNum(a.data, a.pos, a.endian, "I"), LAMBDA n :
    Ok(n.pos, [a EXCEPT !.pos = n.pos, !.num_objects = n.v]))

NumAdds(a) ==
    Bind(ReadNum(a.data, a.pos, a.endian, "I"), LAMBDA n :
    Ok(n.pos, [a EXCEPT !.pos = n.pos, !.num_adds = n.v]))

\* lines 197-201: AssetRef is not defined anywhere, so the first iteration
\* of the loop raises NameError
LoadRefs(a) ==
    Bind(ReadNum(a.data, a.pos, a.endian, "I"), LAMBDA n :
    Bind(Check(n.v <= 0, E_AssetRef, n.pos), LAMBDA none :
    Ok(n.pos, [a EXCEPT !.pos = n.pos, !.num_refs = n.v])))

\* lines 203-204
LoadTrailer(a) ==
    Bind(read_string(a.data, a.pos), LAMBDA s :
    Bind(Check(s.v = <<>>, E_Trailing, s.pos), LAMBDA empty :
    Ok(s.pos, [a EXCEPT !.pos = s.pos])))

\* ObjectInfo.bytes, line 112: the position sought
ObjectStart(a, obj) == a.data_offset + obj.data_offset

\* ObjectInfo.bytes, line 113
ObjectBytes(a, obj) == ReadBytes(a.data, ObjectStart(a, obj), obj.size)

-----------------------------------------------------------------------------
(* Input files: bundles written field by field.  The writers below do not   *)
(* use the reader's operators, so that a change to the reader is not        *)
(* mirrored by the files it reads.                                          *)

MaxAssets == 2     \* assets per bundle
MaxObjects == 2    \* entries per object table
MaxAdds == 1       \* added-object pairs per asset

Zeros(n) == [k \in 1..n |-> 0]
Fill(n, b) == [k \in 1..n |-> b]

W32(v) == <<(v \div 16777216) % 256, (v \div 65536) % 256, (v \div 256) % 256, v % 256>>
W16(v) == <<(v \div 256) % 256, v % 256>>
InOrder(little, bs) == IF little THEN [k \in 1..Len(bs) |-> bs[Len(bs) + 1 - k]] ELSE bs
Enc32(little, v) == InOrder(little, W32(v))
Enc16(little, v) == InOrder(little, W16(v))
Enc64(little, v) == InOrder(little, <<0, 0, 0, 0>> \o W32(v))
PadTo4(at) == Zeros((4 - (at % 4)) % 4)

EncId(little, format, at, id) ==
    IF format >= 14 THEN PadTo4(at) \o Enc64(little, id) ELSE Enc32(little, id)

EncObject(little, format, at, o) ==
    EncId(little, format, at, o.id)
    \o Enc32(little, o.off) \o Enc32(little, o.size) \o Enc32(little, o.type)
    \o Enc16(little, 1) \o Enc16(little, 0)
    \o (IF format >= 15 THEN <<0>> ELSE <<>>)

RECURSIVE EncObjects(_, _, _, _)
EncObjects(little, format, at, objs) ==
    IF objs = <<>> THEN <<>>
    ELSE LET e == EncObject(little, format, at, Head(objs)) IN
         e \o EncObjects(little, format, at + Len(e), Tail(objs))

EncAdd(little, format, at, ad) ==
    EncId(little, format, at, ad[1]) \o Enc32(little, ad[2])

RECURSIVE EncAdds(_, _, _, _)
EncAdds(little, format, at, ads) ==
    IF ads = <<>> THEN <<>>
    ELSE LET e == EncAdd(little, format, at, Head(ads)) IN
         e \o EncAdds(little, format, at + Len(e), Tail(ads))

HashBytes == <<1, 2, 3, 4, 5, 6, 7, 8, 9, 10, 11, 12, 13, 14, 15, 16>>

EncType(little, has, t) ==
    Enc32(little, t.class_id) \o HashBytes
    \o (IF has THEN Enc32(little, t.nodes) \o Enc32(little, t.nbytes)
                    \o Fill(24 * t.nodes, 2) \o Fill(t.nbytes, 3)
        ELSE <<>>)

RECURSIVE EncTypes(_, _, _)
EncTypes(little, has, ts) ==
    IF ts = <<>> THEN <<>>
    ELSE EncType(little, has, Head(ts)) \o EncTypes(little, has, Tail(ts))

Payload == <<21, 22, 23, 24>>

\* one serialized file; p.flag is its endianness field and its byte order
AssetBytes(p) ==
    LET little == p.flag = 0
        meta == <<53, 0>> \o Enc32(little, p.platform)
                \o <<IF p.has THEN 1 ELSE 0>> \o Enc32(little, Len(p.types))
                \o EncTypes(little, p.has, p.types)
                \o Enc32(little, Len(p.objs))
        objs == EncObjects(little, p.format, 16 + Len(meta), p.objs)
        adds == IF p.format >= 11
                THEN Enc32(little, Len(p.adds))
                     \o EncAdds(little, p.format, 16 + Len(meta) + Len(objs) + 4, p.adds)
                ELSE <<>>
        body == meta \o objs \o adds \o Enc32(little, p.nrefs) \o p.trail \o <<0>>
    IN  W32(16 + Len(body) + Len(Payload)) \o W32(p.format)
        \o W32(16 + Len(body)) \o W32(p.flag) \o body \o Payload

\* the (name, header_size, size) triple, a gap when header_size is larger
\* than the triple, then the serialized file
EntryBytes(n, gap, extra, bytes) ==
    <<96 + n, 0>> \o W32(10 + gap) \o W32(Len(bytes) + extra) \o Fill(gap, 9) \o bytes

RECURSIVE Entries(_, _, _, _)
Entries(n, gap, extra, bytes) ==
    IF n = 0 THEN <<>>
    ELSE Entries(n - 1, gap, extra, bytes) \o EntryBytes(n, gap, extra, bytes)

\* a bundle of b.count copies of one serialized file
BundleBytes(b, bytes) ==
    LET natural == 33 + (IF b.version >= 2 THEN 4 ELSE 0) + (IF b.version >= 3 THEN 4 ELSE 0)
        hsize   == IF b.big THEN 60 ELSE natural
        head    == b.signature \o <<0>> \o W32(b.version) \o <<53, 0>> \o <<53, 0>>
                   \o W32(0) \o W32(hsize) \o W32(b.count) \o W32(1)
                   \o (IF b.version >= 2 THEN W32(0) ELSE <<>>)
                   \o (IF b.version >= 3 THEN W32(0) ELSE <<>>)
                   \o (IF b.big THEN W32(0) \o W32(0) ELSE <<>>)
    IN  head \o Zeros(hsize - Len(head)) \o W32(b.count)
        \o Entries(b.count, b.gap, b.extra, bytes)


Formats == {9, 13, 14, 15}
Flags == {0, 1, 2}

\* a class id UnityClass does not list
OtherClass == CHOOSE c \in 1..TextAsset : c \notin UnityClass

TypeConfigs ==
    { [has |-> FALSE, types |-> <<>>],
      [has |-> FALSE, types |-> <<[class_id |-> TextAsset, nodes |-> 0, nbytes |-> 0]>>],
      [has |-> TRUE,  types |-> <<[class_id |-> TextAsset, nodes |-> 0, nbytes |-> 2]>>],
      [has |-> TRUE,  types |-> <<[class_id |-> OtherClass, nodes |-> 1, nbytes |-> 0]>>] }

PathIds == {1, 2}

\* object entries: in range and of a known class, out of range, of another class
ObjKinds ==
    { [id |-> n, off |-> k[1], size |-> k[2], type |-> k[3]] :
        n \in PathIds,
        k \in {<<0, 2, TextAsset>>, <<1, 9, TextAsset>>, <<0, 2, OtherClass>>} }

RECURSIVE SeqsUpTo(_, _)
SeqsUpTo(S, n) ==
    IF n = 0 THEN {<<>>}
    ELSE LET shorter == SeqsUpTo(S, n - 1) IN
         shorter \cup {Append(q, x) : q \in shorter, x \in S}

ObjLists == SeqsUpTo(ObjKinds, MaxObjects)
AddLists == SeqsUpTo({<<1, 5>>}, MaxAdds)

AssetParams ==
    { [format |-> f, flag |-> e, has |-> t.has, types |-> t.types, objs |-> o,
       adds |-> a, nrefs |-> 0, trail |-> <<>>, platform |-> 5] :
        f \in Formats, e \in Flags, t \in TypeConfigs, o \in ObjLists, a \in AddLists }

PlainBundle == [signature |-> SIGNATURE_RAW, version |-> 1, count |-> 1,
                gap |-> 0, extra |-> 0, big |-> FALSE]

BaseA == [format |-> 14, flag |-> 0, has |-> TRUE,
          types |-> <<[class_id |-> TextAsset, nodes |-> 0, nbytes |-> 2]>>,
          objs |-> <<[id |-> 1, off |-> 0, size |-> 2, type |-> TextAsset]>>,
          adds |-> <<<<1, 5>>>>, nrefs |-> 0, trail |-> <<>>, platform |-> 5]

BaseB == [format |-> 9, flag |-> 1, has |-> FALSE,
          types |-> <<[class_id |-> TextAsset, nodes |-> 0, nbytes |-> 0]>>,
          objs |-> <<[id |-> 1, off |-> 0, size |-> 2, type |-> TextAsset],
                     [id |-> 2, off |-> 1, size |-> 3, type |-> TextAsset]>>,
          adds |-> <<>>, nrefs |-> 0, trail |-> <<>>, platform |-> 5]

BaseC == [BaseA EXCEPT !.format = 15, !.flag = 1, !.objs = BaseB.objs]

BaseAssets == {BaseA, BaseB, BaseC}

\* well-formed and ill-formed serialized files in a plain bundle
AssetFiles == {BundleBytes(PlainBundle, AssetBytes(p)) : p \in AssetParams}

\* the bundle's own header and entries varied
BundleFiles ==
    { BundleBytes([signature |-> s, version |-> v, count |-> c, gap |-> g,
                   extra |-> x, big |-> b], AssetBytes(p)) :
        s \in {SIGNATURE_RAW, SIGNATURE_WEB}, v \in {1, 2, 3}, c \in 1..MaxAssets,
        g \in {0, 2}, x \in {0, 3}, b \in BOOLEAN, p \in BaseAssets }

\* serialized files with a field the decoder rejects
OddAssets ==
    UNION { { [p EXCEPT !.nrefs = 1], [p EXCEPT !.trail = <<120>>],
              [p EXCEPT !.platform = 4], [p EXCEPT !.format = 8] } : p \in BaseAssets }

OddFiles == {BundleBytes(PlainBundle, AssetBytes(p)) : p \in OddAssets}

\* every prefix of a few files
Prefixes(f) == {SubSeq(f, 1, n) : n \in 0..Len(f)}

CutFiles ==
    UNION { Prefixes(BundleBytes([PlainBundle EXCEPT !.signature = s], AssetBytes(p))) :
              s \in {SIGNATURE_RAW, SIGNATURE_WEB}, p \in BaseAssets }

Files == AssetFiles \cup BundleFiles \cup OddFiles \cup CutFiles

-----------------------------------------------------------------------------
(* The decode as a state machine *)

NoCall == [asset |-> 0, obj |-> 0, value |-> <<>>]

Init ==
    /\ file \in Files
    /\ defaults \in {{}, {TextAsset}}
    /\ handle = "none"
    /\ filePos = 0
    /\ pc = "init"
    /\ err = NoError
    /\ bundle = NoBundle
    /\ assets = <<>>
    /\ cur = NoAsset
    /\ i = 0
    /\ last = NoCall

\* a step of the decode: it raised, or it goes on at pc value next
Goes(r, next) ==
    IF r.err # NoError THEN pc' = "failed" /\ err' = r.err
    ELSE pc' = next /\ err' = err

\* AssetBundle.load_file, lines 223-224
LoadFile ==
    /\ pc = "init"
    /\ handle' = "open"
    /\ pc' = "header"
    /\ UNCHANGED <<file, defaults, filePos, err, bundle, assets, cur, i, last>>

HeaderStep(r) ==
    /\ filePos' = r.pos
    /\ bundle' = IF r.err = NoError THEN r.v ELSE bundle
    /\ Goes(r, IF r.err = NoError /\ r.v.num_assets > 0 THEN "asset" ELSE "done")

\* AssetBundle.read_header, lines 228-253
ReadHeader ==
    /\ pc = "header"
    /\ HeaderStep(ParseHeader(file))
    /\ UNCHANGED <<file, defaults, handle, assets, cur, i, last>>

TripleStep(r) ==
    /\ filePos' = r.pos
    /\ cur' = IF r.err = NoError THEN r.v ELSE NoAsset
    /\ Goes(r, "slice")

\* AssetBundle.read_header, line 255, and Asset.load, lines 141-144
AssetTriple ==
    /\ pc = "asset"
    /\ TripleStep(LoadTriple(file, filePos))
    /\ UNCHANGED <<file, defaults, handle, bundle, assets, i, last>>

SliceStep(r) ==
    /\ filePos' = r.pos
    /\ cur' = [cur EXCEPT !.data = r.v, !.pos = 0]

\* Asset.load, lines 146-147
AssetSlice ==
    /\ pc = "slice"
    /\ SliceStep(Slice(file, cur))
    /\ pc' = "prepare"
    /\ UNCHANGED <<file, defaults, handle, err, bundle, assets, i, last>>

\* a step of Asset.prepare on the asset being loaded
PrepareStep(r, next) ==
    /\ cur' = IF r.err = NoError THEN r.v ELSE [cur EXCEPT !.pos = r.pos]
    /\ Goes(r, next)

\* where prepare goes once the object loop is over: line 187
AfterObjects(a) == IF a.format >= 11 THEN "adds" ELSE "refs"

\* Asset.prepare, lines 151-161
PrepareHead ==
    /\ pc = "prepare"
    /\ PrepareStep(PrepareHeader(cur), "types")
    /\ UNCHANGED <<file, defaults, handle, filePos, bundle, assets, i, last>>

\* Asset.prepare, lines 163-164
PrepareTypes ==
    /\ pc = "types"
    /\ PrepareStep(TypeMetadataLoad(cur), "objects")
    /\ UNCHANGED <<file, defaults, handle, filePos, bundle, assets, i, last>>

\* Asset.prepare, line 166
PrepareObjectCount ==
    /\ pc = "objects"
    /\ PrepareStep(NumObjects(cur),
                   IF cur'.num_objects > 0 THEN "object" ELSE AfterObjects(cur))
    /\ i' = 0
    /\ UNCHANGED <<file, defaults, handle, filePos, bundle, assets, last>>

\* Asset.prepare, lines 167-185, one iteration
PrepareObject ==
    /\ pc = "object"
    /\ PrepareStep(LoadObject(cur, defaults),
                   IF i + 1 < cur.num_objects THEN "object" ELSE AfterObjects(cur))
    /\ i' = i + 1
    /\ UNCHANGED <<file, defaults, handle, filePos, bundle, assets, last>>

\* Asset.prepare, line 188
PrepareAddCount ==
    /\ pc = "adds"
    /\ PrepareStep(NumAdds(cur), IF cur'.num_adds > 0 THEN "add" ELSE "refs")
    /\ i' = 0
    /\ UNCHANGED <<file, defaults, handle, filePos, bundle, assets, last>>

\* Asset.prepare, lines 189-195, one iteration
PrepareAdd ==
    /\ pc = "add"
    /\ PrepareStep(LoadAdd(cur), IF i + 1 < cur.num_adds THEN "add" ELSE "refs")
    /\ i' = i + 1
    /\ UNCHANGED <<file, defaults, handle, filePos, bundle, assets, last>>

\* Asset.prepare, lines 197-201
PrepareRefs ==
    /\ pc = "refs"
    /\ PrepareStep(LoadRefs(cur), "trailer")
    /\ UNCHANGED <<file, defaults, handle, filePos, bundle, assets, i, last>>

TrailerStep(r) ==
    /\ PrepareStep(r, IF Len(assets) + 1 < bundle.num_assets THEN "asset" ELSE "done")
    /\ assets' = IF r.err = NoError THEN Append(assets, r.v) ELSE assets

\* Asset.prepare, lines 203-204, then AssetBundle.read_header, line 257
PrepareTrailer ==
    /\ pc = "trailer"
    /\ TrailerStep(LoadTrailer(cur))
    /\ UNCHANGED <<file, defaults, handle, filePos, bundle, i, last>>

BytesStep(k, j, r) ==
    /\ last' = [asset |-> k, obj |-> j, value |-> r.v]
    /\ assets' = [assets EXCEPT ![k].pos = r.pos]

\* ObjectInfo.bytes on object j of asset k of the decoded bundle
Bytes(k, j) ==
    /\ pc = "done"
    /\ BytesStep(k, j, ObjectBytes(assets[k], assets[k].objects[j].val))
    /\ UNCHANGED <<file, defaults, handle, filePos, pc, err, bundle, cur, i>>

\* AssetBundle.__del__: the bundle is collected once nothing refers to it
Del ==
    /\ pc \in {"done", "failed"}
    /\ handle = "open"
    /\ handle' = "closed"
    /\ UNCHANGED <<file, defaults, filePos, pc, err, bundle, assets, cur, i, last>>

Next ==
    \/ LoadFile
    \/ ReadHeader
    \/ AssetTriple
    \/ AssetSlice
    \/ PrepareHead
    \/ PrepareTypes
    \/ PrepareObjectCount
    \/ PrepareObject
    \/ PrepareAddCount
    \/ PrepareAdd
    \/ PrepareRefs
    \/ PrepareTrailer
    \/ \E k \in 1..Len(assets) : \E j \in 1..Len(assets[k].objects) : Bytes(k, j)
    \/ Del

Spec == Init /\ [][Next]_vars

-----------------------------------------------------------------------------
(* Properties.  The operators of this section read bytes on their own, by   *)
(* explicit weights, and not through the reader modelled above.             *)

\* the n bytes of data after position p
At(data, p, n) == [k \in 1..n |-> data[p + k]]

BE32(bs) == bs[1] * 16777216 + bs[2] * 65536 + bs[3] * 256 + bs[4]
LE32(bs) == bs[4] * 16777216 + bs[3] * 65536 + bs[2] * 256 + bs[1]
BE16(bs) == bs[1] * 256 + bs[2]
LE16(bs) == bs[2] * 256 + bs[1]

\* a 4-byte or 2-byte field under the file's endianness flag
ByFlag32(flag, bs) == IF flag = 0 THEN LE32(bs) ELSE BE32(bs)
ByFlag16(flag, bs) == IF flag = 0 THEN LE16(bs) ELSE BE16(bs)

\* an 8-byte field under the flag, as <<high word, low word>>
ByFlag64(flag, bs) ==
    IF flag = 0 THEN <<LE32(At(bs, 4, 4)), LE32(At(bs, 0, 4))>>
    ELSE <<BE32(At(bs, 0, 4)), BE32(At(bs, 4, 4))>>

\* the bytes of data in [start, start + n), as far as data reaches
Clip(data, start, n) ==
    LET room == IF Len(data) > start THEN Len(data) - start ELSE 0
        m    == IF n < room THEN n ELSE room
    IN  [k \in 1..m |-> data[start + k]]

Failed(e) == pc = "failed" /\ err = e

\* the decode is inside Asset.prepare
Preparing == pc \in {"prepare", "types", "objects", "object", "adds", "add", "refs", "trailer"}

\* the type id of the object entry at the reader's position, when the entry's
\* id, data_offset, size and type id are all in the buffer
EntryHead(a) ==
    Bind(ReadId(a.data, a.pos, a.endian, a.format), LAMBDA id :
    Bind(ReadNums(a.data, id.pos, a.endian, <<"I", "I", "I">>), LAMBDA head :
    Ok(head.pos, [id |-> id.v, type |-> head.v[3]])))

\* C1 (as claimed): an object entry whose type id is in the file's own type
\* table or in the default table is decoded and stored, and its decode does
\* not end in a type-resolution error.
C1_PresentTypeIsStored ==
    [][(pc = "object" /\ EntryHead(cur).err = NoError
        /\ EntryHead(cur).v.type \in Keys(cur.type_trees) \cup defaults)
       => ~(pc' = "failed" /\ err' \in {E_NotUnityClass, E_UnknownType})]_vars

\* C2 (as claimed): every object of a successfully decoded serialized file has
\* data_offset + size <= length of the buffer - the file's data_offset.
C2_ObjectsInDataRegion ==
    \A k \in 1..Len(assets) : \A j \in 1..Len(assets[k].objects) :
        assets[k].objects[j].val.data_offset + assets[k].objects[j].val.size
            <= Len(assets[k].data) - assets[k].data_offset

\* the entry at the reader's position repeats the path id of an earlier one
RepeatsPathId(a) ==
    /\ ReadId(a.data, a.pos, a.endian, a.format).err = NoError
    /\ DictHas(a.objects, ReadId(a.data, a.pos, a.endian, a.format).v)

\* the entry at the reader's position is read whole and its type resolves
EntryResolves(a, dflt) ==
    Bind(ReadId(a.data, a.pos, a.endian, a.format), LAMBDA id :
    Bind(ObjectInfoLoad(a.data, id.pos, a.endian, a.format), LAMBDA o :
    Resolve(a, o.v.type, dflt, o.pos))).err = NoError

\* path ids pairwise distinct, and as many entries as the table announces
DistinctAndComplete(a) ==
    /\ Len(a.objects) = a.num_objects
    /\ \A j1, j2 \in 1..Len(a.objects) : a.objects[j1].key = a.objects[j2].key => j1 = j2

\* C3 (as claimed): an entry whose path id repeats an earlier one always ends
\* the decode with the duplicate-object error.
C3_RepeatAlwaysDuplicateError ==
    [][(pc = "object" /\ RepeatsPathId(cur))
       => (pc' = "failed" /\ err' = E_Duplicate)]_vars

\* C3 (amended): an entry whose path id repeats an earlier one ends the decode;
\* the error is the duplicate-object error when the entry is read whole and its
\* type resolves (an error of reading or of type resolution comes first
\* otherwise); no step overwrites or drops an entry already stored; and every
\* successfully decoded file has pairwise distinct path ids and exactly
\* num_objects entries.
C3_DuplicateRejected ==
    /\ [][pc = "object" =>
            /\ RepeatsPathId(cur) => pc' = "failed"
            /\ (RepeatsPathId(cur) /\ EntryResolves(cur, defaults))
                  => (pc' = "failed" /\ err' = E_Duplicate)
            /\ Len(cur'.objects) >= Len(cur.objects)
            /\ \A j \in 1..Len(cur.objects) : cur'.objects[j] = cur.objects[j]
            /\ pc' # "failed" => Len(cur'.objects) = i']_vars
    /\ [](\A k \in 1..Len(assets) : DistinctAndComplete(assets[k]))

\* C3 witness: a decode ended by the duplicate check with the earlier entry kept
C3_Witness == Failed(E_Duplicate) /\ Len(cur.objects) >= 1 /\ i = 2

\* C4 (as claimed): bytes() on an object returns the object's size bytes of
\* the asset's buffer starting at asset.data_offset + object.data_offset.
C4_BytesAreTheObjectsRange ==
    last.asset # 0 =>
        LET a == assets[last.asset]
            o == a.objects[last.obj].val
        IN  /\ Len(last.value) = o.size
            /\ \A n \in 1..Len(last.value) :
                   last.value[n] = a.data[a.data_offset + o.data_offset + n]

\* the file's signature string is "UnityWeb"
WebSignature == Len(file) >= 9 /\ At(file, 0, 9) = SIGNATURE_WEB \o <<0>>

\* C5 (as claimed): a stream whose signature is the compressed-format marker
\* fails with the signature assertion whatever follows, and with nothing else.
C5_WebAlwaysUnsupported ==
    (WebSignature /\ pc \notin {"init", "header"}) => Failed(E_Signature)

\* C6 (as claimed): when the decode has failed and the error has reached the
\* caller, the file handle is closed.
C6_ClosedOnFailure == pc = "failed" => handle = "closed"

\* the byte length of an object entry after its id: data_offset, size, type
\* id, class_id and the trailer of the file's format
BodyLen(format) == 14 + (IF format >= 15 THEN 3 ELSE 2)

\* the object stored last, and the pair added last
Newest(a) == a.objects[Len(a.objects)]
NewestAdd(a) == a.adds[Len(a.adds)]

\* C7: the four header fields file_size, format, data_offset and endianness are
\* decoded big-endian whatever the flag; every field read after them (the
\* platform code and type count, the object, add and reference counts, the
\* fields of each object entry and the value of each added pair) is decoded
\* little-endian when the endianness flag is 0 and big-endian when it is not.
C7_ByteOrder ==
    /\ [][(pc = "prepare" /\ Len(cur.data) >= 16) =>
            IF BE32(At(cur.data, 4, 4)) < 9
            THEN pc' = "failed" /\ err' = E_Format
            ELSE /\ pc' = "types"
                 /\ cur'.file_size = BE32(At(cur.data, 0, 4))
                 /\ cur'.format = BE32(At(cur.data, 4, 4))
                 /\ cur'.data_offset = BE32(At(cur.data, 8, 4))
                 /\ cur'.endianness = BE32(At(cur.data, 12, 4))]_vars
    /\ [][(pc = "types" /\ read_string(cur.data, cur.pos).err = NoError
           /\ Len(cur.data) >= read_string(cur.data, cur.pos).pos + 9) =>
            /\ (pc' = "failed" /\ err' = E_Platform)
                 <=> ByFlag32(cur.endianness,
                              At(cur.data, read_string(cur.data, cur.pos).pos, 4)) # 5
            /\ pc' # "failed" =>
                 cur'.num_types
                   = ByFlag32(cur.endianness,
                              At(cur.data, read_string(cur.data, cur.pos).pos + 5, 4))]_vars
    /\ [][(pc \in {"objects", "adds", "refs"} /\ Len(cur.data) >= cur.pos + 4) =>
            /\ pc = "objects" =>
                 pc' # "failed"
                 /\ cur'.num_objects = ByFlag32(cur.endianness, At(cur.data, cur.pos, 4))
            /\ pc = "adds" =>
                 pc' # "failed"
                 /\ cur'.num_adds = ByFlag32(cur.endianness, At(cur.data, cur.pos, 4))
            /\ pc = "refs" =>
                 (pc' = "failed" /\ err' = E_AssetRef)
                   <=> ByFlag32(cur.endianness, At(cur.data, cur.pos, 4)) > 0]_vars
    /\ [][(pc = "object" /\ pc' # "failed") =>
            LET body == cur'.pos - BodyLen(cur.format) IN
            /\ Newest(cur').val.data_offset = ByFlag32(cur.endianness, At(cur.data, body, 4))
            /\ Newest(cur').val.size = ByFlag32(cur.endianness, At(cur.data, body + 4, 4))
            /\ Newest(cur').val.type = ByFlag32(cur.endianness, At(cur.data, body + 8, 4))
            /\ Newest(cur').val.class_id
                 = ByFlag16(cur.endianness, At(cur.data, body + 12, 2))]_vars
    /\ [][(pc = "add" /\ pc' # "failed") =>
            NewestAdd(cur')[2] = ByFlag32(cur.endianness, At(cur.data, cur'.pos - 4, 4))]_vars

\* C7 witness: a little-endian file decoded through its object table and adds
C7_Witness ==
    /\ pc = "done"
    /\ \E k \in 1..Len(assets) :
          /\ assets[k].endianness = 0
          /\ assets[k].num_objects = 2
          /\ Len(assets[k].objects) = 2
          /\ Len(assets[k].adds) = 1

\* where the id of the entry at the reader's position starts, and its width
IdStart(a) == IF a.format >= 14 THEN a.pos + ((4 - (a.pos % 4)) % 4) ELSE a.pos
IdWidth(a) == IF a.format >= 14 THEN 8 ELSE 4

\* the id of the entry at the reader's position
IdValue(a) ==
    IF a.format >= 14
    THEN ByFlag64(a.endianness, At(a.data, IdStart(a), 8))
    ELSE ByFlag32(a.endianness, At(a.data, IdStart(a), 4))

\* C8: for every object entry and every added pair, the id starts at the next
\* multiple of 4 at or after the reader's position (0 to 3 bytes further,
\* counted from the start of the asset's buffer) and is 8 bytes wide if and
\* only if the format is at least 14; below 14 it starts at the reader's
\* position and is 4 bytes wide.  The rest of an entry has the same length at
\* format 13 and at format 14.
C8_IdAlignmentAndWidth ==
    /\ [][(pc = "object" /\ pc' # "failed") =>
            /\ cur'.pos = IdStart(cur) + IdWidth(cur) + BodyLen(cur.format)
            /\ Newest(cur').key = IdValue(cur)]_vars
    /\ [][pc = "add" =>
            IF Len(cur.data) >= IdStart(cur) + IdWidth(cur) + 4
            THEN /\ pc' # "failed"
                 /\ cur'.pos = IdStart(cur) + IdWidth(cur) + 4
                 /\ NewestAdd(cur')[1] = IdValue(cur)
            ELSE pc' = "failed" /\ err' = E_Truncated]_vars
    /\ [][(pc \in {"object", "add"}) =>
            /\ IdStart(cur) - cur.pos \in 0..3
            /\ cur.format >= 14 => IdStart(cur) % 4 = 0
            /\ BodyLen(13) = BodyLen(14)]_vars

\* C8 witness: a format-14 file whose entries and pair were read after padding
C8_Witness ==
    /\ pc = "done"
    /\ \E k \in 1..Len(assets) :
          /\ assets[k].format = 14
          /\ Len(assets[k].objects) = 2
          /\ Len(assets[k].adds) = 1
          /\ assets[k].pos % 4 # 0

\* C9 (as claimed): no asset buffer, hash or type-tree blob shorter than its
\* declared length is ever produced.
C9_NoShortReads ==
    /\ Preparing => Len(cur.data) = cur.size
    /\ \A k \in 1..Len(assets) : Len(assets[k].data) = assets[k].size
    /\ \A j \in 1..Len(cur.hashes) : Len(cur.hashes[j].val) = HashLen(cur.hashes[j].key)
    /\ \A j \in 1..Len(cur.type_trees) :
          /\ Len(cur.type_trees[j].val.node_data) = 24 * cur.type_trees[j].val.nodes
          /\ Len(cur.type_trees[j].val.local_buffer) = cur.type_trees[j].val.buffer_bytes

\* C10 (as claimed): the asset's buffer is the size bytes that start
\* header_size after the position reached once the triple is read.  (The
\* bytes are taken as far as the stream reaches, so that only the base offset
\* is at stake.)
C10_BaseAfterTriple ==
    [][pc = "slice" => cur'.data = Clip(file, filePos + cur.header_size, cur.size)]_vars

\* the position the triple of the asset being loaded was read from
TripleStart == filePos - (Len(cur.name) + 9)

\* C10 (amended): the base offset is the stream position immediately before
\* the (name, header_size, size) triple is read; the asset's buffer is the
\* stream's bytes from base offset + header_size on, size of them or as many
\* as the stream holds; the stream is left right after those bytes, prepare
\* does not move it, and the next asset's triple is read from there.
C10_BaseBeforeTriple ==
    /\ [][pc = "slice" =>
            /\ cur'.data = Clip(file, TripleStart + cur.header_size, cur.size)
            /\ TripleStart + cur.header_size <= Len(file)
                 => filePos' = TripleStart + cur.header_size + Len(cur'.data)]_vars
    /\ [][Preparing => filePos' = filePos]_vars
    /\ [][(pc = "asset" /\ pc' = "slice") =>
            /\ cur'.offset = filePos
            /\ cur'.name = Decode(At(file, filePos, Len(cur'.name)))
            /\ file[filePos + Len(cur'.name) + 1] = 0
            /\ cur'.header_size = BE32(At(file, filePos + Len(cur'.name) + 1, 4))
            /\ cur'.size = BE32(At(file, filePos + Len(cur'.name) + 5, 4))]_vars

\* C10 witness: two assets sliced in stream order, the triples shorter than
\* header_size
C10_Witness ==
    /\ pc = "done"
    /\ Len(assets) = 2
    /\ assets[1].header_size > Len(assets[1].name) + 9
    /\ assets[2].offset > assets[1].offset + assets[1].header_size

====
